---------------------------- MODULE Spec2Model ----------------------------
(***************************************************************************)
(* Model of the HBase session loader (src/hbase_loader.py).                *)
(*                                                                         *)
(* load_sessions lists the session files of a directory in sorted order,   *)
(* reads each file whole, turns every session into a put (row key, column  *)
(* data), collects the puts in a happybase batch, sends the batch when it  *)
(* holds batch_size puts, and sends what remains at the end of each file.  *)
(* Nothing is caught: a missing field (KeyError) or a failing send ends    *)
(* load_sessions, and main, with the exception.                            *)
(*                                                                         *)
(* Strings are sequences of one-character strings, so that building and    *)
(* splitting a row key are real operations on characters.                  *)
(***************************************************************************)
EXTENDS Integers, Sequences, FiniteSets, TLC

(***************************************************************************)
(* Bounds of the model.  batch_size is 1000 in the source                  *)
(* (src/hbase_loader.py:86); the model runs the same loop with a small     *)
(* capacity so that full batches, remainders and several batches per file  *)
(* all occur within a few records.                                         *)
(***************************************************************************)
batch_size == 2

MaxFiles == 2

MaxRecords == 5

\* the most sessions loaded into the table the queries run on
MaxLoaded == 3

\* the largest limit a query is called with
MaxLimit == 2

\* the limit of the scan of get_converted_sessions (1000 in the source)
ConvertedScanLimit == 2

\* the limit of the scan of main in hbase_queries.py (100 in the source)
SampleScanLimit == 2

\* batch_size of load_transactions in mongodb_loader.py (10000 in the source)
transactions_batch_size == 2

\* the most records in transactions.json
MaxTransactions == 4

\* the most rows in the sessions table funnel_conversion_analysis scans
MaxRows == 3

\* the limit of the scan of funnel_conversion_analysis (50000 in the source)
FunnelScanLimit == 2

(***************************************************************************)
(* Session records.  A session is a mapping from field names to values; a  *)
(* malformed record lacks a field.  The fields kept are the ones the row   *)
(* key and the session_info columns are built from.                        *)
(***************************************************************************)
RequiredFields == <<"user_id", "start_time", "session_id", "conversion_status">>

SessionPool ==
  { [user_id |-> <<"u", "1">>, start_time |-> <<"t", "1">>,
     session_id |-> <<"s", "1">>, conversion_status |-> "converted"],
    [user_id |-> <<"u", "1">>, start_time |-> <<"t", "1">>,
     session_id |-> <<"s", "2">>, conversion_status |-> "abandoned"],
    [user_id |-> <<"u", "2">>, start_time |-> <<"t", "1">>,
     session_id |-> <<"s", "3">>, conversion_status |-> "browsed"],
    [start_time |-> <<"t", "2">>,
     session_id |-> <<"s", "4">>, conversion_status |-> "browsed"] }

VARIABLES
  session_files,  \* the contents of the session files: session_files[k] is the
                  \* file named SessionFileNames[k]
  pc,             \* position in load_sessions
  fi,             \* index of the session file of the outer loop
  i,              \* index of the session of the inner loop (1-based)
  batch,          \* puts held by the current happybase batch, in put order
  batch_count,    \* the loader's own count of the puts in the batch
  total_loaded,   \* the loader's running total
  sink,           \* the HBase table: row key -> column data
  sends,          \* history: every batch.send() so far, with its outcome
  raised,         \* the exception that ended load_sessions, or <<"none">>
  returned,       \* <<v>> once load_sessions has returned v; NoValue before
  runs,           \* how many times the loader has been started
  first_sink,     \* history: the table as the first complete run left it
  file_names,     \* the sorted names of the session files (line 77)
  printed,        \* history: the totals load_sessions has printed, in order
  result          \* what the last query of hbase_queries.py returned

\* mongodb_loader.py
VARIABLES
  raw_data,       \* the files of raw_data: collection name -> its records,
                  \* or NoFile when the file does not exist
  db,             \* the database: collection name -> its documents, in
                  \* insertion order
  db_before,      \* history: the database as main found it
  mongo_pc,       \* position in main and in the load function it has called
  data,           \* the records load_json_file returned to the load function
  range_i,        \* load_transactions: i of `for i in range(...)`
  total_inserted, \* load_transactions: its running total
  insert_calls,   \* history: every insert_many call so far, with its outcome
  mongo_raised    \* the exception that ended main, or "none"

\* integrated_analytics.py, funnel_conversion_analysis
VARIABLES
  scan_rows,           \* the rows of the sessions table, in scan order
  funnel_pc,           \* position in funnel_conversion_analysis
  scan_n,              \* how many rows the scan loop has taken
  total_sessions,
  sessions_with_views,
  sessions_with_cart,
  converted_sessions,
  device_stats,        \* device -> [total, converted]
  referrer_stats,      \* referrer -> [total, converted]
  status_stats         \* status -> count

mongoVars == <<raw_data, db, db_before, mongo_pc, data, range_i, total_inserted,
               insert_calls, mongo_raised>>

funnelVars == <<scan_rows, funnel_pc, scan_n, total_sessions,
                sessions_with_views, sessions_with_cart, converted_sessions,
                device_stats, referrer_stats, status_stats>>

hbaseVars == <<session_files, pc, fi, i, batch, batch_count, total_loaded,
               sink, sends, raised, returned, runs, first_sink, file_names,
               printed, result>>

vars == <<hbaseVars, mongoVars, funnelVars>>

NoValue == <<>>

NoResult ==
  [query |-> "none", user_id |-> <<>>, limit |-> 0, sessions |-> <<>>,
   scanned |-> 0, users |-> {}]

EmptyTable == [k \in {} |-> <<>>]

(***************************************************************************)
(* The collections of the ecommerce database, in the order main loads      *)
(* them, and the value standing for a file that does not exist.            *)
(***************************************************************************)
Collections == <<"categories", "products", "users", "transactions">>

CollectionNames == {Collections[k] : k \in 1..Len(Collections)}

NoFile == [exists |-> FALSE, records |-> <<>>]

(***************************************************************************)
(* mongodb_loader.py is not running.                                       *)
(***************************************************************************)
MongoAtRest ==
  /\ raw_data = [c \in CollectionNames |-> NoFile]
  /\ db = [c \in CollectionNames |-> <<>>]
  /\ db_before = [c \in CollectionNames |-> <<>>]
  /\ mongo_pc = <<"main", "idle">>
  /\ data = <<>>
  /\ range_i = 0
  /\ total_inserted = 0
  /\ insert_calls = <<>>
  /\ mongo_raised = "none"

(***************************************************************************)
(* funnel_conversion_analysis is not running.                              *)
(***************************************************************************)
FunnelAtRest ==
  /\ scan_rows = <<>>
  /\ funnel_pc = "idle"
  /\ scan_n = 0
  /\ total_sessions = 0
  /\ sessions_with_views = 0
  /\ sessions_with_cart = 0
  /\ converted_sessions = 0
  /\ device_stats = <<>>
  /\ referrer_stats = <<>>
  /\ status_stats = <<>>

(***************************************************************************)
(* hbase_loader.py and hbase_queries.py are not running.                   *)
(***************************************************************************)
HBaseAtRest ==
  /\ session_files = <<>>
  /\ pc = "idle"
  /\ fi = 0
  /\ i = 0
  /\ batch = <<>>
  /\ batch_count = 0
  /\ total_loaded = 0
  /\ sink = EmptyTable
  /\ sends = <<>>
  /\ raised = <<"none">>
  /\ returned = NoValue
  /\ runs = 1
  /\ first_sink = EmptyTable
  /\ file_names = <<>>
  /\ printed = <<>>
  /\ result = NoResult

(***************************************************************************)
(* Strings compare as Python str and HBase row keys do: character by       *)
(* character, by code.                                                     *)
(***************************************************************************)
Ascii ==
  [c \in {".", "0", "1", "2", "3", "9", "_", "e", "i", "j", "n", "o", "r", "s",
          "t", "u", "v"} |->
     CASE c = "." -> 46  [] c = "0" -> 48  [] c = "1" -> 49  [] c = "2" -> 50
       [] c = "3" -> 51  [] c = "9" -> 57  [] c = "_" -> 95  [] c = "e" -> 101
       [] c = "i" -> 105 [] c = "j" -> 106 [] c = "n" -> 110 [] c = "o" -> 111
       [] c = "r" -> 114 [] c = "s" -> 115 [] c = "t" -> 116 [] c = "u" -> 117
       [] c = "v" -> 118]

RECURSIVE LessFrom(_, _, _)
LessFrom(a, b, k) ==
  IF k > Len(a) THEN k <= Len(b)
  ELSE IF k > Len(b) THEN FALSE
  ELSE IF a[k] = b[k] THEN LessFrom(a, b, k + 1)
  ELSE Ascii[a[k]] < Ascii[b[k]]

StrLess(a, b) == LessFrom(a, b, 1)

(***************************************************************************)
(* sorted(names): the strings of a sequence in ascending order, equal      *)
(* strings in the order they came in.                                      *)
(***************************************************************************)
RECURSIVE InsertSorted(_, _)
InsertSorted(sorted, x) ==
  IF sorted = <<>> THEN <<x>>
  ELSE IF StrLess(x, Head(sorted)) THEN <<x>> \o sorted
  ELSE <<Head(sorted)>> \o InsertSorted(Tail(sorted), x)

RECURSIVE Sorted(_)
Sorted(strs) ==
  IF strs = <<>> THEN <<>>
  ELSE InsertSorted(Sorted(SubSeq(strs, 1, Len(strs) - 1)), strs[Len(strs)])

RECURSIVE Orders(_)
Orders(S) ==
  IF S = {} THEN {<<>>}
  ELSE UNION {{<<x>> \o p : p \in Orders(S \ {x})} : x \in S}

(***************************************************************************)
(* The names of the session files of the data directory, ascending, and    *)
(* the other files it holds.                                               *)
(***************************************************************************)
SessionFileNames ==
  << <<"s", "e", "s", "s", "i", "o", "n", "s", "_", "1", ".", "j", "s", "o", "n">>,
     <<"s", "e", "s", "s", "i", "o", "n", "s", "_", "1", "0", ".", "j", "s", "o", "n">>,
     <<"s", "e", "s", "s", "i", "o", "n", "s", "_", "2", ".", "j", "s", "o", "n">> >>

OtherFileNames == { <<"u", "s", "e", "r", "s", ".", "j", "s", "o", "n">> }

(***************************************************************************)
(* generate_row_key with the time of the load in place of the session's    *)
(* start_time (the number of the run stands for the clock).                *)
(***************************************************************************)
generate_row_key_load_time(user_id, start_time) ==
  user_id \o <<"_">> \o (IF runs = 1 THEN <<"r", "1">> ELSE <<"r", "2">>)

(***************************************************************************)
(* generate_row_key: f"{user_id}_{start_time}".                            *)
(***************************************************************************)
generate_row_key(user_id, start_time) == user_id \o <<"_">> \o start_time

(***************************************************************************)
(* The first field, in the order load_sessions reads them, that the        *)
(* session lacks: the key of the KeyError it raises.  "" when none.        *)
(***************************************************************************)
MissingField(session) ==
  LET missing == {n \in 1..Len(RequiredFields) :
                    RequiredFields[n] \notin DOMAIN session}
  IN  IF missing = {} THEN ""
      ELSE RequiredFields[CHOOSE n \in missing : \A m \in missing : n <= m]

(***************************************************************************)
(* The column data load_sessions prepares for a session.                   *)
(***************************************************************************)
SessionData(session) ==
  [session_id        |-> session.session_id,
   conversion_status |-> session.conversion_status,
   start_time        |-> session.start_time]

(***************************************************************************)
(* batch.put(row_key, data).  src is not program state: it names the       *)
(* source record (file, index) the put was made from.                      *)
(***************************************************************************)
MakePut(session, file, index) ==
  [row  |-> generate_row_key(session.user_id, session.start_time),
   data |-> SessionData(session),
   src  |-> <<file, index>>]

(***************************************************************************)
(* The table after one put: a write to an existing row replaces it.        *)
(***************************************************************************)
TablePut(table, put) ==
  [k \in DOMAIN table \cup {put.row} |->
     IF k = put.row THEN put.data ELSE table[k]]

(***************************************************************************)
(* The table after the puts of a batch, applied in put order.              *)
(***************************************************************************)
RECURSIVE TableApply(_, _)
TableApply(table, puts) ==
  IF puts = <<>> THEN table
  ELSE TableApply(TablePut(table, Head(puts)), Tail(puts))

RECURSIVE SumOf(_)
SumOf(lens) == IF lens = <<>> THEN 0 ELSE Head(lens) + SumOf(Tail(lens))

(***************************************************************************)
(* The files of a directory whose m files have the lengths lens and hold   *)
(* the sessions rs, in order.                                              *)
(***************************************************************************)
SplitFiles(rs, lens) ==
  [k \in 1..Len(lens) |->
     SubSeq(rs, SumOf(SubSeq(lens, 1, k - 1)) + 1, SumOf(SubSeq(lens, 1, k)))]

(***************************************************************************)
(* The data directory holds up to MaxFiles session files (at most          *)
(* Len(SessionFileNames)) with up to MaxRecords sessions in all, each      *)
(* session drawn from SessionPool; the table is empty and load_sessions is *)
(* about to start.                                                         *)
(***************************************************************************)
Init ==
  /\ \E m \in 0..MaxFiles :
       \E lens \in {l \in [1..m -> 0..MaxRecords] : SumOf(l) <= MaxRecords} :
         \E rs \in [1..SumOf(lens) -> SessionPool] :
           session_files = SplitFiles(rs, lens)
  /\ pc = "list"
  /\ fi = 0
  /\ i = 0
  /\ batch = <<>>
  /\ batch_count = 0
  /\ total_loaded = 0
  /\ sink = EmptyTable
  /\ sends = <<>>
  /\ raised = <<"none">>
  /\ returned = NoValue
  /\ runs = 1
  /\ first_sink = EmptyTable
  /\ file_names = <<>>
  /\ printed = <<>>
  /\ result = NoResult
  /\ MongoAtRest
  /\ FunnelAtRest

(***************************************************************************)
(* Line 77, the filter: f.startswith('sessions_') and f.endswith('.json'). *)
(***************************************************************************)
StartsWith(str, prefix) ==
  Len(str) >= Len(prefix) /\ SubSeq(str, 1, Len(prefix)) = prefix

EndsWith(str, suffix) ==
  Len(str) >= Len(suffix)
    /\ SubSeq(str, Len(str) - Len(suffix) + 1, Len(str)) = suffix

IsSessionFile(name) ==
  /\ StartsWith(name, <<"s", "e", "s", "s", "i", "o", "n", "s", "_">>)
  /\ EndsWith(name, <<".", "j", "s", "o", "n">>)

(***************************************************************************)
(* The names in the data directory, and the orders os.listdir may return   *)
(* them in: any.                                                           *)
(***************************************************************************)
(* The names in a data directory of m session files, and the orders        *)
(* os.listdir may return them in: any.                                     *)
(***************************************************************************)
DirNames(m) == {SessionFileNames[k] : k \in 1..m} \cup OtherFileNames

Listings == [m \in 0..Len(SessionFileNames) |-> Orders(DirNames(m))]

(***************************************************************************)
(* Line 77, for a directory of m session files: the values the expression  *)
(* may take, one per order of the listing, without sorted() and with it.   *)
(***************************************************************************)
FilteredListings ==
  [m \in 0..Len(SessionFileNames) |->
     {SelectSeq(listing, IsSessionFile) : listing \in Listings[m]}]

SortedListings ==
  [m \in 0..Len(SessionFileNames) |->
     {Sorted(SelectSeq(listing, IsSessionFile)) : listing \in Listings[m]}]

(***************************************************************************)
(* Lines 92-93: the sessions of the file of the outer loop, read from the  *)
(* file of that name.                                                      *)
(***************************************************************************)
FileContents(name) ==
  session_files[CHOOSE k \in 1..Len(session_files) : SessionFileNames[k] = name]

sessions == FileContents(file_names[fi])

(***************************************************************************)
(* ListFiles without sorted(): the files are taken in the order            *)
(* os.listdir returned them.                                               *)
(***************************************************************************)
ListFilesUnsorted ==
  /\ pc = "list"
  /\ \E names \in FilteredListings[Len(session_files)] :
           /\ file_names' = names
           /\ IF names = <<>>
              THEN /\ pc' = "done"
                   /\ returned' = <<0>>
                   /\ UNCHANGED <<fi, total_loaded>>
              ELSE /\ pc' = "file"
                   /\ fi' = 1
                   /\ total_loaded' = 0
                   /\ UNCHANGED returned
  /\ UNCHANGED <<mongoVars, funnelVars, session_files, i, batch, batch_count, sink, sends, raised, runs,
                 first_sink, printed, result>>

(***************************************************************************)
(* Lines 77-86: the session files of the directory are listed, filtered    *)
(* and sorted by name; with none, 0 is returned.                           *)
(***************************************************************************)
ListFiles ==
  /\ pc = "list"
  /\ \E names \in SortedListings[Len(session_files)] :
           /\ file_names' = names
           /\ IF names = <<>>
              THEN /\ pc' = "done"
                   /\ returned' = <<0>>
                   /\ UNCHANGED <<fi, total_loaded>>
              ELSE /\ pc' = "file"
                   /\ fi' = 1
                   /\ total_loaded' = 0
                   /\ UNCHANGED returned
  /\ UNCHANGED <<mongoVars, funnelVars, session_files, i, batch, batch_count, sink, sends, raised, runs,
                 first_sink, printed, result>>

(***************************************************************************)
(* OpenFile with the exception of open or json.load caught and the file    *)
(* passed over.                                                            *)
(***************************************************************************)
ReadFailsSkipped ==
  /\ pc = "file"
  /\ fi <= Len(file_names)
  /\ raised' = <<"JSONDecodeError", "">>
  /\ fi' = fi + 1
  /\ UNCHANGED <<mongoVars, funnelVars, session_files, pc, i, batch, batch_count, total_loaded, sink,
                 sends, returned, runs, first_sink, file_names, printed, result>>

(***************************************************************************)
(* Lines 92-93: the file cannot be opened or is not JSON: open or          *)
(* json.load raises, and nothing catches it.  Any file may be the one.     *)
(***************************************************************************)
ReadFails ==
  /\ pc = "file"
  /\ fi <= Len(file_names)
  /\ raised' = <<"JSONDecodeError", "">>
  /\ pc' = "raised"
  /\ UNCHANGED <<mongoVars, funnelVars, session_files, fi, i, batch, batch_count, total_loaded, sink,
                 sends, returned, runs, first_sink, file_names, printed, result>>

(***************************************************************************)
(* OpenFile without lines 98-99: the batch and its count are carried over  *)
(* from the file before.                                                   *)
(***************************************************************************)
OpenFileKeepsBatch ==
  /\ pc = "file"
  /\ fi <= Len(file_names)
  /\ i' = 1
  /\ pc' = "session"
  /\ UNCHANGED <<mongoVars, funnelVars, session_files, fi, batch, batch_count, total_loaded, sink,
                 sends, raised, returned, runs, first_sink, file_names, printed,
                 result>>

(***************************************************************************)
(* Lines 88-99: the next file is read and a new batch is opened.           *)
(***************************************************************************)
OpenFile ==
  /\ pc = "file"
  /\ fi <= Len(file_names)
  /\ batch' = <<>>
  /\ batch_count' = 0
  /\ i' = 1
  /\ pc' = "session"
  /\ UNCHANGED <<mongoVars, funnelVars, session_files, fi, total_loaded, sink, sends, raised, returned,
                 runs, first_sink, file_names, printed, result>>

(***************************************************************************)
(* PutSession with the test of line 137 written > instead of >=.           *)
(***************************************************************************)
PutSessionLate ==
  /\ pc = "session"
  /\ i <= Len(sessions)
  /\ MissingField(sessions[i]) = ""
  /\ batch' = Append(batch, MakePut(sessions[i], fi, i))
  /\ batch_count' = batch_count + 1
  /\ IF batch_count + 1 > batch_size
     THEN pc' = "send" /\ i' = i
     ELSE pc' = "session" /\ i' = i + 1
  /\ UNCHANGED <<mongoVars, funnelVars, session_files, fi, total_loaded, sink, sends, raised, returned,
                 runs, first_sink, file_names, printed, result>>

(***************************************************************************)
(* PutSession with a send that does not block: while the full batch is     *)
(* being sent the loop goes on to the next session and puts it.            *)
(***************************************************************************)
PutSessionDuringSend ==
  /\ pc \in {"session", "send"}
  /\ LET n == IF pc = "send" THEN i + 1 ELSE i
     IN  /\ n <= Len(sessions)
         /\ MissingField(sessions[n]) = ""
         /\ batch' = Append(batch, MakePut(sessions[n], fi, n))
         /\ batch_count' = batch_count + 1
         /\ i' = n
         /\ IF pc = "session" /\ batch_count + 1 >= batch_size
            THEN pc' = "send"
            ELSE pc' = pc
  /\ UNCHANGED <<mongoVars, funnelVars, session_files, fi, total_loaded, sink, sends, raised, returned,
                 runs, first_sink, file_names, printed, result>>

(***************************************************************************)
(* Lines 101-137: one session becomes a put in the batch.                  *)
(***************************************************************************)
PutSession ==
  /\ pc = "session"
  /\ i <= Len(sessions)
  /\ MissingField(sessions[i]) = ""
  /\ batch' = Append(batch, MakePut(sessions[i], fi, i))
  /\ batch_count' = batch_count + 1
  /\ IF batch_count + 1 >= batch_size
     THEN pc' = "send" /\ i' = i
     ELSE pc' = "session" /\ i' = i + 1
  /\ UNCHANGED <<mongoVars, funnelVars, session_files, fi, total_loaded, sink, sends, raised, returned,
                 runs, first_sink, file_names, printed, result>>

(***************************************************************************)
(* TransformError with the KeyError caught inside the loop: the session is *)
(* passed over and the loop goes on.                                       *)
(***************************************************************************)
TransformErrorSkipped ==
  /\ pc = "session"
  /\ i <= Len(sessions)
  /\ MissingField(sessions[i]) # ""
  /\ raised' = <<"KeyError", MissingField(sessions[i])>>
  /\ i' = i + 1
  /\ UNCHANGED <<mongoVars, funnelVars, session_files, pc, fi, batch, batch_count, total_loaded, sink,
                 sends, returned, runs, first_sink, file_names, printed, result>>

(***************************************************************************)
(* Lines 103-130: a session lacking a field raises KeyError, which nothing *)
(* catches.                                                                *)
(***************************************************************************)
TransformError ==
  /\ pc = "session"
  /\ i <= Len(sessions)
  /\ MissingField(sessions[i]) # ""
  /\ raised' = <<"KeyError", MissingField(sessions[i])>>
  /\ pc' = "raised"
  /\ UNCHANGED <<mongoVars, funnelVars, session_files, fi, i, batch, batch_count, total_loaded, sink,
                 sends, returned, runs, first_sink, file_names, printed, result>>

(***************************************************************************)
(* SendBatch without lines 141-142: the batch sent keeps its puts and its  *)
(* count.                                                                  *)
(***************************************************************************)
SendBatchKeepsBatch ==
  /\ pc = "send"
  /\ sink' = TableApply(sink, batch)
  /\ sends' = Append(sends, [file |-> fi, puts |-> batch, ok |-> TRUE])
  /\ total_loaded' = total_loaded + batch_count
  /\ printed' = Append(printed, <<"Loaded", total_loaded + batch_count>>)
  /\ i' = i + 1
  /\ pc' = "session"
  /\ UNCHANGED <<mongoVars, funnelVars, session_files, fi, batch, batch_count, raised, returned, runs,
                 first_sink, file_names, result>>

(***************************************************************************)
(* SendBatch without line 139: the batch sent is not added to the total.   *)
(***************************************************************************)
SendBatchUncounted ==
  /\ pc = "send"
  /\ sink' = TableApply(sink, batch)
  /\ sends' = Append(sends, [file |-> fi, puts |-> batch, ok |-> TRUE])
  /\ printed' = Append(printed, <<"Loaded", total_loaded>>)
  /\ batch' = <<>>
  /\ batch_count' = 0
  /\ i' = i + 1
  /\ pc' = "session"
  /\ UNCHANGED <<mongoVars, funnelVars, session_files, fi, total_loaded, raised, returned, runs,
                 first_sink, file_names, result>>

(***************************************************************************)
(* Lines 138-142: the full batch is sent and counted, the running total is *)
(* printed, and the batch is replaced.                                     *)
(***************************************************************************)
SendBatch ==
  /\ pc = "send"
  /\ sink' = TableApply(sink, batch)
  /\ sends' = Append(sends, [file |-> fi, puts |-> batch, ok |-> TRUE])
  /\ total_loaded' = total_loaded + batch_count
  /\ printed' = Append(printed, <<"Loaded", total_loaded + batch_count>>)
  /\ batch' = <<>>
  /\ batch_count' = 0
  /\ i' = i + 1
  /\ pc' = "session"
  /\ UNCHANGED <<mongoVars, funnelVars, session_files, fi, raised, returned, runs, first_sink,
                 file_names, result>>

(***************************************************************************)
(* The puts of a failing send that reached the table: the bulk write is    *)
(* not atomic across rows, so any of them may have, in put order.          *)
(***************************************************************************)
RECURSIVE PutsAt(_, _, _)
PutsAt(puts, keep, n) ==
  IF n > Len(puts) THEN <<>>
  ELSE (IF n \in keep THEN <<puts[n]>> ELSE <<>>) \o PutsAt(puts, keep, n + 1)

(***************************************************************************)
(* SendFails with the exception caught and dropped: the loop goes on.      *)
(***************************************************************************)
SendFailsSwallowed ==
  /\ pc = "send" \/ (pc = "session" /\ i > Len(sessions) /\ batch_count > 0)
  /\ \E keep \in SUBSET (1..Len(batch)) :
       sink' = TableApply(sink, PutsAt(batch, keep, 1))
  /\ sends' = Append(sends, [file |-> fi, puts |-> batch, ok |-> FALSE])
  /\ batch' = <<>>
  /\ IF pc = "send"
     THEN pc' = "session" /\ i' = i + 1 /\ batch_count' = 0 /\ fi' = fi
     ELSE pc' = "file" /\ i' = i /\ batch_count' = batch_count /\ fi' = fi + 1
  /\ UNCHANGED <<mongoVars, funnelVars, session_files, total_loaded, raised, returned, runs, first_sink, file_names, printed, result>>

(***************************************************************************)
(* Line 138 or 146: batch.send() raises.  Nothing catches it: the          *)
(* exception leaves load_sessions and main.                                *)
(***************************************************************************)
SendFails ==
  /\ pc = "send" \/ (pc = "session" /\ i > Len(sessions) /\ batch_count > 0)
  /\ \E keep \in SUBSET (1..Len(batch)) :
       sink' = TableApply(sink, PutsAt(batch, keep, 1))
  /\ sends' = Append(sends, [file |-> fi, puts |-> batch, ok |-> FALSE])
  /\ raised' = <<"IOError", "">>
  /\ pc' = "raised"
  /\ UNCHANGED <<mongoVars, funnelVars, session_files, fi, i, batch, batch_count, total_loaded,
                 returned, runs, first_sink, file_names, printed, result>>

(***************************************************************************)
(* SendRemaining without the test of line 145: the batch is sent even when *)
(* it is empty.                                                            *)
(***************************************************************************)
SendRemainingAlways ==
  /\ pc = "session"
  /\ i > Len(sessions)
  /\ sink' = TableApply(sink, batch)
  /\ sends' = Append(sends, [file |-> fi, puts |-> batch, ok |-> TRUE])
  /\ total_loaded' = total_loaded + batch_count
  /\ batch' = <<>>
  /\ fi' = fi + 1
  /\ pc' = "file"
  /\ UNCHANGED <<mongoVars, funnelVars, session_files, i, batch_count, raised, returned, runs,
                 first_sink, file_names, printed, result>>

(***************************************************************************)
(* SendRemaining without line 147: the remainder is sent but not counted.  *)
(***************************************************************************)
SendRemainingUncounted ==
  /\ pc = "session"
  /\ i > Len(sessions)
  /\ IF batch_count > 0
     THEN /\ sink' = TableApply(sink, batch)
          /\ sends' = Append(sends, [file |-> fi, puts |-> batch, ok |-> TRUE])
          /\ batch' = <<>>
     ELSE UNCHANGED <<sink, sends, batch>>
  /\ fi' = fi + 1
  /\ pc' = "file"
  /\ UNCHANGED <<mongoVars, funnelVars, session_files, i, batch_count, total_loaded, raised, returned,
                 runs, first_sink, file_names, printed, result>>

(***************************************************************************)
(* Lines 144-147: the sessions of the file are exhausted; what remains in  *)
(* the batch is sent and counted.  batch_count keeps its value until the   *)
(* next file resets it (line 99); the batch object empties itself on send. *)
(***************************************************************************)
SendRemaining ==
  /\ pc = "session"
  /\ i > Len(sessions)
  /\ IF batch_count > 0
     THEN /\ sink' = TableApply(sink, batch)
          /\ sends' = Append(sends, [file |-> fi, puts |-> batch, ok |-> TRUE])
          /\ total_loaded' = total_loaded + batch_count
          /\ batch' = <<>>
     ELSE UNCHANGED <<sink, sends, total_loaded, batch>>
  /\ fi' = fi + 1
  /\ pc' = "file"
  /\ UNCHANGED <<mongoVars, funnelVars, session_files, i, batch_count, raised, returned, runs,
                 first_sink, file_names, printed, result>>

(***************************************************************************)
(* Lines 149-150: after the last file the total is printed and returned.   *)
(***************************************************************************)
Return ==
  /\ pc = "file"
  /\ fi > Len(file_names)
  /\ printed' = Append(printed, <<"Total", total_loaded>>)
  /\ returned' = <<total_loaded>>
  /\ pc' = "done"
  /\ UNCHANGED <<mongoVars, funnelVars, session_files, fi, i, batch, batch_count, total_loaded, sink,
                 sends, raised, runs, first_sink, file_names, result>>

(***************************************************************************)
(* The loader is started a second time on the same directory and the same  *)
(* table, after a first run that returned.                                 *)
(***************************************************************************)
Rerun ==
  /\ pc = "done"
  /\ runs = 1
  /\ runs' = 2
  /\ first_sink' = sink
  /\ pc' = "list"
  /\ fi' = 0
  /\ i' = 0
  /\ batch' = <<>>
  /\ batch_count' = 0
  /\ total_loaded' = 0
  /\ sends' = <<>>
  /\ returned' = NoValue
  /\ file_names' = <<>>
  /\ printed' = <<>>
  /\ UNCHANGED <<mongoVars, funnelVars, session_files, sink, raised, result>>

Next ==
  \/ ListFiles
  \/ OpenFile
  \/ ReadFails
  \/ PutSession
  \/ TransformError
  \/ SendBatch
  \/ SendFails
  \/ SendRemaining
  \/ Return

Spec == Init /\ [][Next]_vars

NextRerun == Next \/ Rerun

SpecRerun == Init /\ [][NextRerun]_vars

(***************************************************************************)
(* hbase_queries.py: the queries, run on the table a load has left.        *)
(*                                                                         *)
(* The sessions a load may have put in the table before the queries run.   *)
(* User ids with and without '_', start times of one and two digits and    *)
(* one with a '_' in it (load_sessions takes any string).                  *)
(***************************************************************************)
QueryPool ==
  { [user_id |-> <<"u">>, start_time |-> <<"1">>,
     session_id |-> <<"s", "1">>, conversion_status |-> "converted"],
    [user_id |-> <<"u">>, start_time |-> <<"1">>,
     session_id |-> <<"s", "2">>, conversion_status |-> "abandoned"],
    [user_id |-> <<"u">>, start_time |-> <<"3">>,
     session_id |-> <<"s", "3">>, conversion_status |-> "converted"],
    [user_id |-> <<"u">>, start_time |-> <<"1", "0">>,
     session_id |-> <<"s", "4">>, conversion_status |-> "abandoned"],
    [user_id |-> <<"u", "_", "2">>, start_time |-> <<"1">>,
     session_id |-> <<"s", "5">>, conversion_status |-> "converted"],
    [user_id |-> <<"u", "_", "2">>, start_time |-> <<"3">>,
     session_id |-> <<"s", "6">>, conversion_status |-> "abandoned"],
    [user_id |-> <<"v", "_", "1">>, start_time |-> <<"1", "0">>,
     session_id |-> <<"s", "7">>, conversion_status |-> "converted"],
    [user_id |-> <<"v", "_", "1">>, start_time |-> <<"3", "0">>,
     session_id |-> <<"s", "8">>, conversion_status |-> "converted"],
    [user_id |-> <<"u">>, start_time |-> <<"2", "_", "2">>,
     session_id |-> <<"s", "9">>, conversion_status |-> "abandoned"] }

UserIds == {s.user_id : s \in QueryPool}

(***************************************************************************)
(* The table holds what load_sessions wrote for one file of up to          *)
(* MaxLoaded sessions, and no query has run.                               *)
(***************************************************************************)
InitQuery ==
  /\ \E n \in 0..MaxLoaded :
       \E rs \in [1..n -> QueryPool] :
         /\ session_files = <<rs>>
         /\ sink = TableApply(EmptyTable, [k \in 1..n |-> MakePut(rs[k], 1, k)])
  /\ pc = "query"
  /\ fi = 0
  /\ i = 0
  /\ batch = <<>>
  /\ batch_count = 0
  /\ total_loaded = 0
  /\ sends = <<>>
  /\ raised = <<"none">>
  /\ returned = NoValue
  /\ runs = 1
  /\ first_sink = EmptyTable
  /\ file_names = <<>>
  /\ printed = <<>>
  /\ result = NoResult
  /\ MongoAtRest
  /\ FunnelAtRest

(***************************************************************************)
(* KeysAscending turned round: the keys of a table kept in descending      *)
(* order.                                                                  *)
(***************************************************************************)
RECURSIVE KeysDescending(_)
KeysDescending(keys) ==
  IF keys = {} THEN <<>>
  ELSE LET last == CHOOSE k \in keys : \A o \in keys \ {k} : StrLess(k, o)
       IN  KeysDescending(keys \ {last}) \o <<last>>

(***************************************************************************)
(* table.scan(row_prefix=..., limit=...): the rows whose key begins with   *)
(* the prefix, in ascending key order, the first `limit` of them.          *)
(***************************************************************************)
RECURSIVE KeysAscending(_)
KeysAscending(keys) ==
  IF keys = {} THEN <<>>
  ELSE LET first == CHOOSE k \in keys : \A o \in keys \ {k} : StrLess(k, o)
       IN  <<first>> \o KeysAscending(keys \ {first})

Scan(table, row_prefix, limit) ==
  LET matching == SelectSeq(KeysAscending(DOMAIN table),
                            LAMBDA k : StartsWith(k, row_prefix))
      n == IF limit < Len(matching) THEN limit ELSE Len(matching)
  IN  [k \in 1..n |-> [key |-> matching[k], data |-> table[matching[k]]]]

(***************************************************************************)
(* str.split('_').                                                         *)
(***************************************************************************)
RECURSIVE SplitFrom(_, _, _)
SplitFrom(str, k, part) ==
  IF k > Len(str) THEN <<part>>
  ELSE IF str[k] = "_" THEN <<part>> \o SplitFrom(str, k + 1, <<>>)
  ELSE SplitFrom(str, k + 1, Append(part, str[k]))

Split(str) == SplitFrom(str, 1, <<>>)

(***************************************************************************)
(* ExtractUserId keeping the first part only.                              *)
(***************************************************************************)
ExtractUserIdFirstPart(row_key) == Split(row_key)[1]

(***************************************************************************)
(* Lines 102 and 223-224: the user id taken from a row key, the first two  *)
(* '_'-separated parts joined by '_'.                                      *)
(***************************************************************************)
ExtractUserId(row_key) ==
  Split(row_key)[1] \o <<"_">> \o Split(row_key)[2]

(***************************************************************************)
(* Lines 26-72: get_user_sessions(table, user_id, limit): the rows of the  *)
(* scan by the prefix user_id + '_', each as a session dict, in scan       *)
(* order.  happybase refuses a scan limit below 1.                         *)
(***************************************************************************)
UserSessions(user_id, limit) ==
  LET rows == Scan(sink, user_id \o <<"_">>, limit)
  IN  [query    |-> "user_sessions",
       user_id  |-> user_id,
       limit    |-> limit,
       sessions |->
         [n \in 1..Len(rows) |->
            [row_key           |-> rows[n].key,
             session_id        |-> rows[n].data.session_id,
             start_time        |-> rows[n].data.start_time,
             conversion_status |-> rows[n].data.conversion_status]],
       scanned  |-> Len(rows),
       users    |-> {}]

(***************************************************************************)
(* get_user_sessions called for a user of the pool, loaded or not.         *)
(***************************************************************************)
GetUserSessions ==
  /\ pc = "query"
  /\ \E user_id \in UserIds, limit \in 1..MaxLimit :
       result' = UserSessions(user_id, limit)
  /\ UNCHANGED <<mongoVars, funnelVars, session_files, pc, fi, i, batch, batch_count, total_loaded, sink,
                 sends, raised, returned, runs, first_sink, file_names, printed>>

(***************************************************************************)
(* Lines 96-113: the loop of get_converted_sessions from row n on, with    *)
(* the sessions collected so far: the row is counted, a converted one is   *)
(* appended, and only then is the number collected compared with limit.    *)
(***************************************************************************)
RECURSIVE ConvertedLoop(_, _, _, _)
ConvertedLoop(rows, n, converted, limit) ==
  IF n > Len(rows) THEN [sessions |-> converted, scanned |-> n - 1]
  ELSE IF rows[n].data.conversion_status = "converted"
       THEN LET session == [row_key    |-> rows[n].key,
                            user_id    |-> ExtractUserId(rows[n].key),
                            session_id |-> rows[n].data.session_id,
                            start_time |-> rows[n].data.start_time]
                collected == Append(converted, session)
            IN  IF Len(collected) >= limit
                THEN [sessions |-> collected, scanned |-> n]
                ELSE ConvertedLoop(rows, n + 1, collected, limit)
       ELSE ConvertedLoop(rows, n + 1, converted, limit)

(***************************************************************************)
(* Lines 79-125: get_converted_sessions(table, limit), over a scan of the  *)
(* first ConvertedScanLimit rows of the table.                             *)
(***************************************************************************)
GetConvertedSessions ==
  /\ pc = "query"
  /\ \E limit \in 0..MaxLimit :
       LET out == ConvertedLoop(Scan(sink, <<>>, ConvertedScanLimit), 1, <<>>,
                                limit)
       IN  result' =
             [query    |-> "converted_sessions",
              user_id  |-> <<>>,
              limit    |-> limit,
              sessions |-> out.sessions,
              scanned  |-> out.scanned,
              users    |-> {}]
  /\ UNCHANGED <<mongoVars, funnelVars, session_files, pc, fi, i, batch, batch_count, total_loaded, sink,
                 sends, raised, returned, runs, first_sink, file_names, printed>>

(***************************************************************************)
(* Lines 217-227: main collects the user ids of the first SampleScanLimit  *)
(* rows of the table.                                                      *)
(***************************************************************************)
FindSampleUsers ==
  /\ pc = "query"
  /\ LET rows == Scan(sink, <<>>, SampleScanLimit)
     IN  result' =
           [query    |-> "sample_users",
            user_id  |-> <<>>,
            limit    |-> SampleScanLimit,
            sessions |-> <<>>,
            scanned  |-> Len(rows),
            users    |-> {ExtractUserId(rows[n].key) : n \in 1..Len(rows)}]
  /\ UNCHANGED <<mongoVars, funnelVars, session_files, pc, fi, i, batch, batch_count, total_loaded, sink,
                 sends, raised, returned, runs, first_sink, file_names, printed>>

(***************************************************************************)
(* Line 229: the user main falls back on when the sample is empty.         *)
(***************************************************************************)
DefaultUser == <<"u", "s", "e", "r", "_", "0", "0", "0", "0", "0", "1">>

(***************************************************************************)
(* Lines 229-233: main takes list(sample_users)[0], any of the sampled ids *)
(* since the order of a set of strings is not fixed, or DefaultUser when   *)
(* nothing was sampled, and calls get_user_sessions for it with the limit  *)
(* main passes (5 in the source, MaxLimit here).                           *)
(***************************************************************************)
MainUserSessions ==
  /\ pc = "query"
  /\ result.query = "sample_users"
  /\ \E sample_user \in (IF result.users # {} THEN result.users
                          ELSE {DefaultUser}) :
       result' = UserSessions(sample_user, MaxLimit)
  /\ UNCHANGED <<mongoVars, funnelVars, session_files, pc, fi, i, batch, batch_count, total_loaded, sink,
                 sends, raised, returned, runs, first_sink, file_names, printed>>

NextQuery ==
  \/ GetUserSessions
  \/ GetConvertedSessions
  \/ FindSampleUsers
  \/ MainUserSessions

SpecQuery == InitQuery /\ [][NextQuery]_vars

(***************************************************************************)
(* mongodb_loader.py: main and the four load functions.                    *)
(*                                                                         *)
(* Documents are told apart by the field their unique index is on          *)
(* (category_id, product_id, user_id, transaction_id), here id.  A file of *)
(* categories, products or users is empty, holds two records, or holds two *)
(* records of one id; the database, before, is empty or holds one older    *)
(* document per collection.                                                *)
(***************************************************************************)
SmallFiles ==
  { <<>>, <<[id |-> 1], [id |-> 2]>>, <<[id |-> 1], [id |-> 1]>> }

TransactionPool == {[id |-> 1], [id |-> 2]}

OlderDocuments == <<[id |-> 0]>>

FileOf(records) == [exists |-> TRUE, records |-> records]

InitMongo ==
  /\ \E small \in [{"categories", "products", "users"}
                     -> {NoFile} \cup {FileOf(f) : f \in SmallFiles}] :
       \E n \in 0..MaxTransactions :
         \E ts \in [1..n -> TransactionPool] :
           \E there \in BOOLEAN :
             raw_data = [c \in CollectionNames |->
                           IF c = "transactions"
                           THEN (IF there THEN FileOf(ts) ELSE NoFile)
                           ELSE small[c]]
  /\ \E older \in {<<>>, OlderDocuments} :
       /\ db = [c \in CollectionNames |-> older]
       /\ db_before = [c \in CollectionNames |-> older]
  /\ mongo_pc = <<"main", "check">>
  /\ data = <<>>
  /\ range_i = 0
  /\ total_inserted = 0
  /\ insert_calls = <<>>
  /\ mongo_raised = "none"
  /\ HBaseAtRest
  /\ FunnelAtRest

(***************************************************************************)
(* What main goes on to after the load function of collection c.           *)
(***************************************************************************)
AfterLoad(c) ==
  LET k == CHOOSE n \in 1..Len(Collections) : Collections[n] = c
  IN  IF k < Len(Collections) THEN <<Collections[k + 1], "read">>
      ELSE <<"main", "summary">>

(***************************************************************************)
(* CheckFiles going on to the loads whatever it found.                     *)
(***************************************************************************)
CheckFilesOnly ==
  /\ mongo_pc = <<"main", "check">>
  /\ mongo_pc' = <<Collections[1], "read">>
  /\ UNCHANGED <<raw_data, db, db_before, data, range_i, total_inserted,
                 insert_calls, mongo_raised, hbaseVars, funnelVars>>

(***************************************************************************)
(* Lines 141-149: the four files are looked for; main returns at the first *)
(* that does not exist.                                                    *)
(***************************************************************************)
CheckFiles ==
  /\ mongo_pc = <<"main", "check">>
  /\ IF \E c \in CollectionNames : ~raw_data[c].exists
     THEN mongo_pc' = <<"main", "returned">>
     ELSE mongo_pc' = <<Collections[1], "read">>
  /\ UNCHANGED <<raw_data, db, db_before, data, range_i, total_inserted,
                 insert_calls, mongo_raised, hbaseVars, funnelVars>>

(***************************************************************************)
(* Lines 30-36, called at lines 41, 57, 76 and 94: load_json_file returns  *)
(* the records of the file of collection c.                                *)
(***************************************************************************)
LoadJsonFile(c) ==
  /\ mongo_pc = <<c, "read">>
  /\ raw_data[c].exists
  /\ data' = raw_data[c].records
  /\ mongo_pc' = <<c, "drop">>
  /\ UNCHANGED <<raw_data, db, db_before, range_i, total_inserted, insert_calls,
                 mongo_raised, hbaseVars, funnelVars>>

(***************************************************************************)
(* Lines 33-34: open raises for a file that is not there, json.load for    *)
(* one that is not JSON, which any file may be.  Nothing catches it.       *)
(***************************************************************************)
LoadJsonFileFails(c) ==
  /\ mongo_pc = <<c, "read">>
  /\ mongo_raised' = IF raw_data[c].exists THEN "JSONDecodeError"
                     ELSE "FileNotFoundError"
  /\ mongo_pc' = <<"main", "raised">>
  /\ UNCHANGED <<raw_data, db, db_before, data, range_i, total_inserted,
                 insert_calls, hbaseVars, funnelVars>>

(***************************************************************************)
(* Drop leaving the collection as it is.                                   *)
(***************************************************************************)
DropNothing(c) ==
  /\ mongo_pc = <<c, "drop">>
  /\ range_i' = 0
  /\ total_inserted' = 0
  /\ mongo_pc' = <<c, "insert">>
  /\ UNCHANGED <<raw_data, db, db_before, data, insert_calls, mongo_raised,
                 hbaseVars, funnelVars>>

(***************************************************************************)
(* Lines 44, 60, 79 and 97: the collection is dropped.  For transactions,  *)
(* lines 100-103 then set the total to 0 and begin the range at 0.         *)
(***************************************************************************)
Drop(c) ==
  /\ mongo_pc = <<c, "drop">>
  /\ db' = [db EXCEPT ![c] = <<>>]
  /\ range_i' = 0
  /\ total_inserted' = 0
  /\ mongo_pc' = <<c, "insert">>
  /\ UNCHANGED <<raw_data, db_before, data, insert_calls, mongo_raised, hbaseVars, funnelVars>>

(***************************************************************************)
(* Lines 47, 63 and 82: insert_many(data) of categories, products or       *)
(* users.  pymongo refuses an empty list with TypeError.                   *)
(***************************************************************************)
InsertMany(c) ==
  /\ mongo_pc = <<c, "insert">>
  /\ c # "transactions"
  /\ IF data = <<>>
     THEN /\ mongo_raised' = "TypeError"
          /\ mongo_pc' = <<"main", "raised">>
          /\ UNCHANGED <<db, insert_calls>>
     ELSE /\ db' = [db EXCEPT ![c] = db[c] \o data]
          /\ insert_calls' =
               Append(insert_calls,
                      [collection |-> c, documents |-> data, ok |-> TRUE])
          /\ mongo_pc' = <<c, "index">>
          /\ UNCHANGED mongo_raised
  /\ UNCHANGED <<raw_data, db_before, data, range_i, total_inserted, hbaseVars, funnelVars>>

(***************************************************************************)
(* The slice data[i:i+batch_size] of line 104.                             *)
(***************************************************************************)
Slice(records, from, size) ==
  SubSeq(records, from + 1,
         IF from + size < Len(records) THEN from + size ELSE Len(records))

(***************************************************************************)
(* InsertBatch with the range stepping by one less than the batch size.    *)
(***************************************************************************)
InsertBatchOverlapping ==
  /\ mongo_pc = <<"transactions", "insert">>
  /\ range_i < Len(data)
  /\ LET batch_ == Slice(data, range_i, transactions_batch_size)
     IN  /\ db' = [db EXCEPT !["transactions"] = @ \o batch_]
         /\ insert_calls' =
              Append(insert_calls, [collection |-> "transactions",
                                    documents |-> batch_, ok |-> TRUE])
         /\ total_inserted' = total_inserted + Len(batch_)
  /\ range_i' = range_i + transactions_batch_size - 1
  /\ UNCHANGED <<raw_data, db_before, mongo_pc, data, mongo_raised, hbaseVars, funnelVars>>

(***************************************************************************)
(* Lines 103-107: one turn of the loop of load_transactions: the next      *)
(* slice is inserted and counted.                                          *)
(***************************************************************************)
InsertBatch ==
  /\ mongo_pc = <<"transactions", "insert">>
  /\ range_i < Len(data)
  /\ LET batch_ == Slice(data, range_i, transactions_batch_size)
     IN  /\ db' = [db EXCEPT !["transactions"] = @ \o batch_]
         /\ insert_calls' =
              Append(insert_calls, [collection |-> "transactions",
                                    documents |-> batch_, ok |-> TRUE])
         /\ total_inserted' = total_inserted + Len(batch_)
  /\ range_i' = range_i + transactions_batch_size
  /\ UNCHANGED <<raw_data, db_before, mongo_pc, data, mongo_raised, hbaseVars, funnelVars>>

(***************************************************************************)
(* Lines 47, 63, 82 and 105: insert_many raises on the server's side.  The *)
(* insert is ordered: the documents before the failing one are in the      *)
(* collection, the others are not.  Nothing catches the exception.         *)
(***************************************************************************)
InsertManyFails(c) ==
  /\ mongo_pc = <<c, "insert">>
  /\ LET documents == IF c = "transactions"
                      THEN Slice(data, range_i, transactions_batch_size)
                      ELSE data
     IN  /\ documents # <<>>
         /\ c = "transactions" => range_i < Len(data)
         /\ \E k \in 0..(Len(documents) - 1) :
              db' = [db EXCEPT ![c] = @ \o SubSeq(documents, 1, k)]
         /\ insert_calls' =
              Append(insert_calls,
                     [collection |-> c, documents |-> documents, ok |-> FALSE])
  /\ mongo_raised' = "BulkWriteError"
  /\ mongo_pc' = <<"main", "raised">>
  /\ UNCHANGED <<raw_data, db_before, data, range_i, total_inserted, hbaseVars, funnelVars>>

(***************************************************************************)
(* Lines 103 and 109: the range is exhausted; the total is printed.        *)
(***************************************************************************)
TransactionsInserted ==
  /\ mongo_pc = <<"transactions", "insert">>
  /\ range_i >= Len(data)
  /\ mongo_pc' = <<"transactions", "index">>
  /\ UNCHANGED <<raw_data, db, db_before, data, range_i, total_inserted,
                 insert_calls, mongo_raised, hbaseVars, funnelVars>>

(***************************************************************************)
(* Lines 51, 67-70, 86-88 and 112-117: the indexes are created, the first  *)
(* of them unique: it raises when two documents have the same id.          *)
(***************************************************************************)
CreateIndexes(c) ==
  /\ mongo_pc = <<c, "index">>
  /\ IF \E a, b \in 1..Len(db[c]) : a # b /\ db[c][a].id = db[c][b].id
     THEN /\ mongo_raised' = "DuplicateKeyError"
          /\ mongo_pc' = <<"main", "raised">>
     ELSE /\ mongo_pc' = AfterLoad(c)
          /\ UNCHANGED mongo_raised
  /\ UNCHANGED <<raw_data, db, db_before, data, range_i, total_inserted,
                 insert_calls, hbaseVars, funnelVars>>

(***************************************************************************)
(* Lines 157-171: the summary is printed and the connection closed.        *)
(***************************************************************************)
Summary ==
  /\ mongo_pc = <<"main", "summary">>
  /\ mongo_pc' = <<"main", "done">>
  /\ UNCHANGED <<raw_data, db, db_before, data, range_i, total_inserted,
                 insert_calls, mongo_raised, hbaseVars, funnelVars>>

NextMongo ==
  \/ CheckFiles
  \/ \E c \in CollectionNames : LoadJsonFile(c)
  \/ \E c \in CollectionNames : LoadJsonFileFails(c)
  \/ \E c \in CollectionNames : Drop(c)
  \/ \E c \in CollectionNames : InsertMany(c)
  \/ InsertBatch
  \/ \E c \in CollectionNames : InsertManyFails(c)
  \/ TransactionsInserted
  \/ \E c \in CollectionNames : CreateIndexes(c)
  \/ Summary

SpecMongo == InitMongo /\ [][NextMongo]_vars

(***************************************************************************)
(* integrated_analytics.py: funnel_conversion_analysis.                    *)
(*                                                                         *)
(* The rows of the sessions table, by the columns the analysis reads:      *)
(* conversion_status, device type, referrer and page_views_count, which    *)
(* the loader writes as a number.                                          *)
(***************************************************************************)
FunnelRowPool ==
  { [status |-> "converted", device |-> "mobile", referrer |-> "direct",
     page_views |-> 2],
    [status |-> "converted", device |-> "desktop", referrer |-> "search",
     page_views |-> 1],
    [status |-> "abandoned", device |-> "mobile", referrer |-> "search",
     page_views |-> 2],
    [status |-> "abandoned", device |-> "desktop", referrer |-> "direct",
     page_views |-> 1],
    [status |-> "browsed", device |-> "mobile", referrer |-> "direct",
     page_views |-> 1],
    [status |-> "browsed", device |-> "desktop", referrer |-> "search",
     page_views |-> 2] }

(***************************************************************************)
(* Lines 163-172: the counters are 0, the dicts empty, and the scan of the *)
(* table of up to MaxRows rows is about to begin.                          *)
(***************************************************************************)
InitFunnel ==
  /\ \E n \in 0..MaxRows : \E rows \in [1..n -> FunnelRowPool] :
       scan_rows = rows
  /\ funnel_pc = "scan"
  /\ scan_n = 0
  /\ total_sessions = 0
  /\ sessions_with_views = 0
  /\ sessions_with_cart = 0
  /\ converted_sessions = 0
  /\ device_stats = <<>>
  /\ referrer_stats = <<>>
  /\ status_stats = <<>>
  /\ HBaseAtRest
  /\ MongoAtRest

(***************************************************************************)
(* InCart counting the abandoned sessions only.                            *)
(***************************************************************************)
InCartAbandonedOnly(status) == status = "abandoned"

(***************************************************************************)
(* Line 185: status in ['abandoned', 'converted'].                         *)
(***************************************************************************)
InCart(status) == status \in {"abandoned", "converted"}

(***************************************************************************)
(* Lines 192-203: the entry of a key is made if it is not there, its total *)
(* goes up by one and, for a converted session, its converted count too.   *)
(***************************************************************************)
CountIn(stats, key, status) ==
  [k \in DOMAIN stats \cup {key} |->
     LET old == IF k \in DOMAIN stats THEN stats[k]
                ELSE [total |-> 0, converted |-> 0]
     IN  IF k # key THEN old
         ELSE [total     |-> old.total + 1,
               converted |-> old.converted
                               + (IF status = "converted" THEN 1 ELSE 0)]]

(***************************************************************************)
(* Lines 174-208: one turn of the scan loop, over the next row.            *)
(***************************************************************************)
ScanRow ==
  /\ funnel_pc = "scan"
  /\ scan_n < Len(scan_rows)
  /\ scan_n < FunnelScanLimit
  /\ LET row == scan_rows[scan_n + 1]
     IN  /\ total_sessions' = total_sessions + 1
         /\ sessions_with_views' =
              sessions_with_views + (IF row.page_views > 1 THEN 1 ELSE 0)
         /\ sessions_with_cart' =
              sessions_with_cart + (IF InCart(row.status) THEN 1 ELSE 0)
         /\ converted_sessions' =
              converted_sessions + (IF row.status = "converted" THEN 1 ELSE 0)
         /\ device_stats' = CountIn(device_stats, row.device, row.status)
         /\ referrer_stats' = CountIn(referrer_stats, row.referrer, row.status)
         /\ status_stats' =
              [k \in DOMAIN status_stats \cup {row.status} |->
                 (IF k \in DOMAIN status_stats THEN status_stats[k] ELSE 0)
                   + (IF k = row.status THEN 1 ELSE 0)]
  /\ scan_n' = scan_n + 1
  /\ UNCHANGED <<scan_rows, funnel_pc, hbaseVars, mongoVars>>

(***************************************************************************)
(* Lines 210-244: the scan is over, the funnel and the tables are printed  *)
(* and the totals returned.  The percentages divide by total_sessions:     *)
(* with no row scanned the print raises ZeroDivisionError.                 *)
(***************************************************************************)
PrintFunnel ==
  /\ funnel_pc = "scan"
  /\ scan_n >= Len(scan_rows) \/ scan_n >= FunnelScanLimit
  /\ funnel_pc' = IF total_sessions = 0 THEN "raised" ELSE "done"
  /\ UNCHANGED <<scan_rows, scan_n, total_sessions, sessions_with_views,
                 sessions_with_cart, converted_sessions, device_stats,
                 referrer_stats, status_stats, hbaseVars, mongoVars>>

NextFunnel ==
  \/ ScanRow
  \/ PrintFunnel

SpecFunnel == InitFunnel /\ [][NextFunnel]_vars

(***************************************************************************)
(*                         Notions the claims use                          *)
(***************************************************************************)
Ceil(n, c) == (n + c - 1) \div c

TotalRecords == SumOf([f \in 1..Len(session_files) |-> Len(session_files[f])])

WellFormed(file) == \A k \in 1..Len(file) : MissingField(file[k]) = ""

(***************************************************************************)
(* The source records (file, index) the inner loop has taken so far.  Of a  *)
(* file that could not be read none is taken: i is then still the index    *)
(* the file before was left at.                                            *)
(***************************************************************************)
Consumed ==
  {p \in UNION {{<<f, k>> : k \in 1..Len(session_files[f])} :
                  f \in 1..Len(session_files)} :
     \/ p[1] < fi
     \/ /\ p[1] = fi
        /\ pc \in {"session", "send", "raised"}
        /\ raised[1] # "JSONDecodeError"
        /\ p[2] < i \/ (p[2] = i /\ pc \in {"send", "raised"})}

(***************************************************************************)
(* The sends of the batches of file f, in send order, and their sizes.     *)
(***************************************************************************)
SendsOf(f) == SelectSeq(sends, LAMBDA s : s.file = f)

SizesOf(f) == [k \in 1..Len(SendsOf(f)) |-> Len(SendsOf(f)[k].puts)]

(***************************************************************************)
(* The source records of the puts of send number k.                        *)
(***************************************************************************)
SourcesOf(k) == {sends[k].puts[n].src : n \in 1..Len(sends[k].puts)}

SendFailed == \E k \in 1..Len(sends) : ~sends[k].ok

Ended == pc \in {"done", "raised"}

(***************************************************************************)
(* C1.  For every session file of N well-formed sessions that the loader   *)
(* has finished without a failing send, the file was sent in exactly       *)
(* ceil(N / batch_size) batches holding N puts in all: every batch but the *)
(* last holds batch_size puts and the last holds the rest.  (N = 2500 with *)
(* capacity 1000: sends of 1000, 1000, 500.)                               *)
(***************************************************************************)
C1_BatchCount ==
  \A f \in 1..Len(session_files) :
    (f < fi /\ WellFormed(session_files[f]) /\ ~SendFailed) =>
      LET N == Len(session_files[f])
          sizes == SizesOf(f)
      IN  /\ Len(sizes) = Ceil(N, batch_size)
          /\ SumOf(sizes) = N
          /\ \A k \in 1..Len(sizes) :
               sizes[k] = IF k < Len(sizes) THEN batch_size
                          ELSE N - (Len(sizes) - 1) * batch_size

(* C1's case: a file of 2 * batch_size + 1 sessions went out as two full   *)
(* batches and a remainder of one.                                         *)
C1_Witness ==
  /\ fi > 1
  /\ Len(session_files[1]) = 2 * batch_size + 1
  /\ SizesOf(1) = <<batch_size, batch_size, 1>>

(***************************************************************************)
(* C2.  The current batch never holds more than batch_size puts, and so    *)
(* does the loader's count of them; a batch holding batch_size puts        *)
(* receives no further put: the next step sends it and leaves an empty     *)
(* batch, or the send fails and ends the run.                              *)
(***************************************************************************)
C2_BatchWithinCapacity ==
  /\ [](Len(batch) <= batch_size /\ batch_count <= batch_size)
  /\ [][Len(batch) = batch_size =>
          \/ /\ batch' = <<>>
             /\ sends' = Append(sends, [file |-> fi, puts |-> batch, ok |-> TRUE])
          \/ pc' = "raised"]_vars

(* C2's case: a full batch has been sent and the next session sits in a    *)
(* new batch.                                                              *)
C2_Witness ==
  /\ Len(sends) >= 1
  /\ Len(sends[1].puts) = batch_size
  /\ Len(batch) = 1
  /\ batch[1].src[2] = batch_size + 1

(***************************************************************************)
(* The source records the exception that ended the run is about: the       *)
(* session whose field was missing, or the puts of the batch whose send    *)
(* failed.                                                                 *)
(***************************************************************************)
AccountedInFailure ==
  IF raised[1] = "KeyError" THEN {<<fi, i>>}
  ELSE IF raised[1] = "IOError" THEN {batch[n].src : n \in 1..Len(batch)}
  ELSE {}

(***************************************************************************)
(* C3.  When a run has ended, with or without a failure, every source      *)
(* record it consumed is in exactly one batch that was sent, or is one the *)
(* reported failure is about.                                              *)
(***************************************************************************)
C3_NoSilentDrop ==
  Ended =>
    \A p \in Consumed :
      \/ Cardinality({k \in 1..Len(sends) : sends[k].ok /\ p \in SourcesOf(k)}) = 1
      \/ p \in AccountedInFailure

(***************************************************************************)
(* C4.  No row key is used for two different source records among the      *)
(* puts sent to the table in one run.                                      *)
(***************************************************************************)
C4_RowKeysUnique ==
  \A k1, k2 \in 1..Len(sends) :
    \A n1 \in 1..Len(sends[k1].puts), n2 \in 1..Len(sends[k2].puts) :
      LET p1 == sends[k1].puts[n1]
          p2 == sends[k2].puts[n2]
      IN  session_files[p1.src[1]][p1.src[2]] # session_files[p2.src[1]][p2.src[2]]
            => p1.row # p2.row

(***************************************************************************)
(* C5.  A failing send is the last send of the run: the run has ended with *)
(* the exception, the batch is not sent again and no later batch is sent.  *)
(* The batches sent before it stay applied: each of their rows is in the   *)
(* table, with the data of the put unless a later put wrote the same row.  *)
(***************************************************************************)
C5_AbortOnSendFailure ==
  /\ \A k \in 1..Len(sends) :
       ~sends[k].ok => (k = Len(sends) /\ pc = "raised")
  /\ \A k \in 1..Len(sends) :
       sends[k].ok =>
         \A n \in 1..Len(sends[k].puts) :
           LET p == sends[k].puts[n]
           IN  /\ p.row \in DOMAIN sink
               /\ \/ sink[p.row] = p.data
                  \/ \E n2 \in (n + 1)..Len(sends[k].puts) :
                       sends[k].puts[n2].row = p.row
                  \/ \E k2 \in (k + 1)..Len(sends) :
                       \E n2 \in 1..Len(sends[k2].puts) :
                         sends[k2].puts[n2].row = p.row

(* C5's case: the second send failed after a first one was applied, and    *)
(* sessions that were never consumed remain.                               *)
C5_Witness ==
  /\ Len(sends) = 2
  /\ sends[1].ok
  /\ ~sends[2].ok
  /\ pc = "raised"
  /\ Cardinality(Consumed) < TotalRecords

(***************************************************************************)
(* C6.  When the second send of a run fails, the run reports a summary in  *)
(* which the number of records flushed is the batch capacity (two batches  *)
(* attempted, the first one applied).  The summary of load_sessions is the *)
(* value it returns.                                                       *)
(***************************************************************************)
C6_SummaryOnSecondSendFailure ==
  (Len(sends) = 2 /\ ~sends[2].ok) => returned = <<batch_size>>

(***************************************************************************)
(* C7.  No empty batch is ever sent, and once the sessions of a file are   *)
(* exhausted nothing is left unsent: the batch is empty, every session of  *)
(* the file is in a sent batch, and the file's last send is a remainder    *)
(* exactly when the file's length is no multiple of batch_size.            *)
(***************************************************************************)
C7_FinalFlush ==
  /\ \A k \in 1..Len(sends) : sends[k].puts # <<>>
  /\ pc \in {"file", "done"} =>
       /\ batch = <<>>
       /\ \A f \in 1..Len(session_files) :
            f < fi =>
              LET N == Len(session_files[f])
                  sizes == SizesOf(f)
              IN  /\ UNION {SourcesOf(k) : k \in {j \in 1..Len(sends) :
                                                    sends[j].file = f /\ sends[j].ok}}
                       = {<<f, n>> : n \in 1..N}
                  /\ IF N % batch_size = 0
                     THEN \A k \in 1..Len(sizes) : sizes[k] = batch_size
                     ELSE sizes[Len(sizes)] = N % batch_size

(* C7's case: a run that returned after a file of exactly batch_size       *)
(* sessions (no final send) and a file with a remainder of one.            *)
C7_Witness ==
  /\ pc = "done"
  /\ Len(session_files) = 2
  /\ Len(session_files[1]) = batch_size
  /\ SizesOf(1) = <<batch_size>>
  /\ Len(session_files[2]) = batch_size + 1
  /\ SizesOf(2) = <<batch_size, 1>>

(***************************************************************************)
(* C8.  A run that returns, returns the number of sessions in all the      *)
(* session files it read.                                                  *)
(***************************************************************************)
C8_ReturnsTotalRead ==
  pc = "done" => returned = <<TotalRecords>>

(* C8's case: a run over two non-empty files has returned their total.     *)
C8_Witness ==
  /\ pc = "done"
  /\ Len(session_files) = 2
  /\ Len(session_files[1]) >= 1
  /\ Len(session_files[2]) >= 2
  /\ returned = <<Len(session_files[1]) + Len(session_files[2])>>

(***************************************************************************)
(* C9.  A second run over the same files leaves the table as the first run *)
(* left it: the same rows, with the same data in each.                     *)
(***************************************************************************)
C9_RerunIdempotent ==
  (runs = 2 /\ pc = "done") => sink = first_sink

(* C9's case: the second run has returned, over files in which a row key   *)
(* occurs more than once and more than one row was written.                *)
C9_Witness ==
  /\ runs = 2
  /\ pc = "done"
  /\ TotalRecords >= 3
  /\ Cardinality(DOMAIN sink) = 2

(***************************************************************************)
(* C10.  A run over files in which exactly one session lacks a required    *)
(* field, and in which no send fails, succeeds with all the other sessions *)
(* flushed and the one skipped.                                            *)
(***************************************************************************)
Malformed ==
  {p \in UNION {{<<f, k>> : k \in 1..Len(session_files[f])} :
                  f \in 1..Len(session_files)} :
     MissingField(session_files[p[1]][p[2]]) # ""}

C10_SkipAndCount ==
  (Ended /\ Cardinality(Malformed) = 1 /\ ~SendFailed) =>
    (pc = "done" /\ returned = <<TotalRecords - 1>>)

(***************************************************************************)
(* C11.  A session lacking a required field aborts the run: the run ends   *)
(* with the KeyError and returns nothing, and from then on no further      *)
(* session is consumed and no batch is sent, the partly filled one         *)
(* included, while the table keeps what the earlier sends wrote.           *)
(***************************************************************************)
C11_AbortOnTransformFailure ==
  /\ [](raised[1] = "KeyError" => (pc = "raised" /\ returned = NoValue))
  /\ [][raised[1] = "KeyError" =>
         (i' = i /\ fi' = fi /\ sends' = sends /\ sink' = sink)]_vars

(* C11's case: the KeyError is raised after a batch was sent, with a       *)
(* session waiting in the batch and sessions left in the file.             *)
C11_Witness ==
  /\ raised[1] = "KeyError"
  /\ Len(sends) >= 1
  /\ sink # EmptyTable
  /\ batch # <<>>
  /\ i < Len(sessions)

(***************************************************************************)
(* The sessions of the source, files in ascending order of their names and *)
(* each file in its own order; and the puts of all the sends, in send      *)
(* order.                                                                  *)
(***************************************************************************)
NamesAscending ==
  [m \in 0..Len(SessionFileNames) |->
     LET present == {SessionFileNames[k] : k \in 1..m}
     IN  [k \in 1..m |->
            CHOOSE name \in present :
              Cardinality({n \in present : StrLess(n, name)}) = k - 1]]

RECURSIVE SourceFrom(_)
SourceFrom(k) ==
  IF k > Len(session_files) THEN <<>>
  ELSE FileContents(NamesAscending[Len(session_files)][k]) \o SourceFrom(k + 1)

RECURSIVE SentFrom(_)
SentFrom(k) ==
  IF k > Len(sends) THEN <<>> ELSE sends[k].puts \o SentFrom(k + 1)

(***************************************************************************)
(* C12.  The puts of the sends, taken in send order, are the transforms of *)
(* the first sessions of the source, one for one and in source order,      *)
(* where the source is the files in ascending name order; when the run     *)
(* returns they are the transforms of all of them.                         *)
(***************************************************************************)
C12_SentIsSourcePrefix ==
  LET source == SourceFrom(1)
      sent == SentFrom(1)
  IN  /\ Len(sent) <= Len(source)
      /\ \A n \in 1..Len(sent) :
           /\ MissingField(source[n]) = ""
           /\ sent[n].row =
                generate_row_key(source[n].user_id, source[n].start_time)
           /\ sent[n].data = SessionData(source[n])
      /\ pc = "done" => Len(sent) = Len(source)

(* C12's case: a run over two files of different sessions has returned,    *)
(* having sent a full batch of the first file, the rest of it, and the     *)
(* second file.                                                            *)
C12_Witness ==
  /\ pc = "done"
  /\ Len(session_files) = 2
  /\ Len(session_files[1]) = batch_size + 1
  /\ Len(session_files[2]) >= 1
  /\ session_files[1][1] # session_files[2][1]
  /\ Len(sends) = 3

(***************************************************************************)
(* C13.  One batch at a time: from the moment a full batch is handed to    *)
(* send, the only step is the end of that send, of that batch, returning   *)
(* or raising; a put is appended only while no send is under way; and each *)
(* send is over, its batch emptied or the run ended, before anything else  *)
(* is sent.                                                                *)
(***************************************************************************)
C13_OneBatchInFlight ==
  [][/\ pc = "send" =>
          /\ Len(sends') = Len(sends) + 1
          /\ sends'[Len(sends')].puts = batch
          /\ pc' \in {"session", "raised"}
     /\ Len(batch') > Len(batch) =>
          /\ pc = "session"
          /\ sends' = sends
          /\ sink' = sink
     /\ sends' # sends =>
          /\ sends' = Append(sends, sends'[Len(sends')])
          /\ sends'[Len(sends')].puts = batch
          /\ batch' = <<>> \/ pc' = "raised"]_vars

(* C13's case: two full batches have been sent, each send returned, and    *)
(* the next session is in the new batch.                                   *)
C13_Witness ==
  /\ Len(sends) = 2
  /\ \A k \in 1..2 : sends[k].ok /\ Len(sends[k].puts) = batch_size
  /\ pc = "session"
  /\ Len(batch) = 1

(***************************************************************************)
(* C14.  A session file that cannot be read or parsed, and a send the      *)
(* table refuses, each end the run with the exception and nothing          *)
(* returned: from then on no session is consumed, no batch is sent and the *)
(* table does not change.                                                  *)
(***************************************************************************)
C14_FatalReadAndSinkErrors ==
  /\ [](raised[1] \in {"JSONDecodeError", "IOError"} =>
          (pc = "raised" /\ returned = NoValue))
  /\ [][raised[1] \in {"JSONDecodeError", "IOError"} =>
          (i' = i /\ fi' = fi /\ batch' = batch /\ sends' = sends
             /\ sink' = sink)]_vars

(* C14's case: the second file cannot be read, after the first was read    *)
(* and sent.                                                               *)
C14_Witness ==
  /\ raised[1] = "JSONDecodeError"
  /\ fi = 2
  /\ Len(sends) >= 1
  /\ Len(session_files[2]) >= 1

(***************************************************************************)
(* The sends that returned, and the sessions they carried.                 *)
(***************************************************************************)
SendsReturned == SelectSeq(sends, LAMBDA s : s.ok)

RECURSIVE SentOkFrom(_)
SentOkFrom(k) ==
  IF k > Len(sends) THEN 0
  ELSE (IF sends[k].ok THEN Len(sends[k].puts) ELSE 0) + SentOkFrom(k + 1)

(***************************************************************************)
(* C17.  Progress is reported batch by batch: when a batch is sent, and    *)
(* when the run returns, each send that returned before has had its own    *)
(* report, and every total reported is the number of sessions sent so far. *)
(***************************************************************************)
C17_ReportPerSend ==
  /\ [][sends' # sends => Len(printed) >= Len(SendsReturned)]_vars
  /\ [](pc = "done" => Len(printed) >= Len(SendsReturned))
  /\ [][printed' # printed =>
          printed'[Len(printed')][2] = SentOkFrom(1)']_vars

(***************************************************************************)
(* The source records load_sessions holds: json.load returns the whole     *)
(* file as one list, which lives as long as the file is worked on.         *)
(***************************************************************************)
InMemory == IF pc \in {"session", "send"} THEN Len(sessions) ELSE 0

(***************************************************************************)
(* C18.  The source records held in memory never number more than the      *)
(* batch capacity.                                                         *)
(***************************************************************************)
C18_MemoryWithinCapacity == InMemory <= batch_size

(***************************************************************************)
(* The sessions loaded into the table the queries run on, and those of     *)
(* them that are of one user.                                              *)
(***************************************************************************)
Loaded == {session_files[1][k] : k \in 1..Len(session_files[1])}

LoadedOf(user_id) == {s \in Loaded : s.user_id = user_id}

(***************************************************************************)
(* C15.  get_user_sessions(user_id, limit) returns sessions of that user   *)
(* only, and all the sessions loaded for the user, or `limit` of them when *)
(* there are more.                                                         *)
(***************************************************************************)
C15_PrefixScanExact ==
  result.query = "user_sessions" =>
    LET mine == LoadedOf(result.user_id)
        got == {result.sessions[n].session_id :
                  n \in 1..Len(result.sessions)}
    IN  /\ got \subseteq {s.session_id : s \in mine}
        /\ Len(result.sessions) =
             (IF result.limit < Cardinality(mine) THEN result.limit
              ELSE Cardinality(mine))
        /\ Cardinality(got) = Len(result.sessions)

(***************************************************************************)
(* A start time, as a number: the start times here are decimal numerals.   *)
(***************************************************************************)
RECURSIVE TimeValue(_)
TimeValue(digits) ==
  IF digits = <<>> THEN 0
  ELSE 10 * TimeValue(SubSeq(digits, 1, Len(digits) - 1))
         + (Ascii[digits[Len(digits)]] - Ascii["0"])

(***************************************************************************)
(* The rows of the sessions of a user lie side by side in the key order of *)
(* the table; the sessions of the user among those a query returned are in *)
(* the order of their start times.  A returned session is the user's when  *)
(* its session_id is that of a session loaded for the user.                *)
(***************************************************************************)
StoredContiguously(user_id) ==
  LET order == KeysAscending(DOMAIN sink)
      keys == {generate_row_key(s.user_id, s.start_time) :
                 s \in LoadedOf(user_id)}
      at == {n \in 1..Len(order) : order[n] \in keys}
  IN  \A a, b \in at : \A n \in a..b : n \in at

ReturnedChronologically(user_id) ==
  LET own == {s.session_id : s \in LoadedOf(user_id)}
  IN  \A n, m \in 1..Len(result.sessions) :
        (/\ n < m
         /\ result.sessions[n].session_id \in own
         /\ result.sessions[m].session_id \in own)
          => TimeValue(result.sessions[n].start_time)
               <= TimeValue(result.sessions[m].start_time)

(***************************************************************************)
(* C16, as stated.  The rows of the sessions of a user are contiguous in   *)
(* the table, and get_user_sessions returns the sessions of the user in    *)
(* the order of their start times.                                         *)
(***************************************************************************)
C16_ContiguousChronological ==
  result.query = "user_sessions" =>
    /\ StoredContiguously(result.user_id)
    /\ ReturnedChronologically(result.user_id)

(***************************************************************************)
(* No row key of a session of another user begins with this user id and    *)
(* '_'.                                                                    *)
(***************************************************************************)
NoForeignKey(user_id) ==
  \A s \in Loaded :
    s.user_id # user_id =>
      ~StartsWith(generate_row_key(s.user_id, s.start_time),
                  user_id \o <<"_">>)

(***************************************************************************)
(* The start times loaded for the user are decimal numerals of one length. *)
(***************************************************************************)
FixedWidthTimes(user_id) ==
  /\ \A s \in LoadedOf(user_id) :
       \A k \in 1..Len(s.start_time) :
         s.start_time[k] \in {"0", "1", "2", "3", "9"}
  /\ \A s, t \in LoadedOf(user_id) : Len(s.start_time) = Len(t.start_time)

(***************************************************************************)
(* C16, amended.  The rows of the sessions of a user are contiguous in the *)
(* table when no row key of another user's session begins with the user id *)
(* and '_'; and get_user_sessions returns the sessions of the user in the  *)
(* order of their start times when these are numerals of one length.       *)
(***************************************************************************)
C16_ContiguousChronologicalOneFormat ==
  result.query = "user_sessions" =>
    /\ NoForeignKey(result.user_id) => StoredContiguously(result.user_id)
    /\ FixedWidthTimes(result.user_id)
         => ReturnedChronologically(result.user_id)

(* C16's case: two sessions of a user, loaded later one first with a       *)
(* session of another user after them, are returned earlier one first.     *)
C16_Witness ==
  /\ result.query = "user_sessions"
  /\ NoForeignKey(result.user_id)
  /\ FixedWidthTimes(result.user_id)
  /\ Len(session_files[1]) = 3
  /\ session_files[1][1].user_id = result.user_id
  /\ session_files[1][2].user_id = result.user_id
  /\ session_files[1][3].user_id # result.user_id
  /\ TimeValue(session_files[1][1].start_time)
       > TimeValue(session_files[1][2].start_time)
  /\ Len(result.sessions) = 2
  /\ result.sessions[1].session_id = session_files[1][2].session_id
  /\ result.sessions[2].session_id = session_files[1][1].session_id

(***************************************************************************)
(* The keys of the converted rows among the first ConvertedScanLimit rows  *)
(* of the table, in key order.                                             *)
(***************************************************************************)
ConvertedKeys ==
  LET order == KeysAscending(DOMAIN sink)
      n == IF ConvertedScanLimit < Len(order) THEN ConvertedScanLimit
           ELSE Len(order)
  IN  SelectSeq(SubSeq(order, 1, n),
                LAMBDA k : sink[k].conversion_status = "converted")

(***************************************************************************)
(* C19.  get_converted_sessions(limit) returns at most `limit` sessions,   *)
(* all converted and in key order, having looked at no more than           *)
(* ConvertedScanLimit rows: they are the first `limit` converted rows      *)
(* among the first ConvertedScanLimit rows of the table, or all of these   *)
(* when there are fewer.                                                   *)
(***************************************************************************)
C19_FirstConvertedWithinLimit ==
  result.query = "converted_sessions" =>
    LET n == IF result.limit < Len(ConvertedKeys) THEN result.limit
             ELSE Len(ConvertedKeys)
    IN  /\ Len(result.sessions) <= result.limit
        /\ result.scanned <= ConvertedScanLimit
        /\ \A k \in 1..Len(result.sessions) :
             sink[result.sessions[k].row_key].conversion_status = "converted"
        /\ [k \in 1..Len(result.sessions) |-> result.sessions[k].row_key]
             = SubSeq(ConvertedKeys, 1, n)

(***************************************************************************)
(* The user id read back from the row key of a session is the user id of   *)
(* the session.                                                            *)
(***************************************************************************)
RoundTrip(s) ==
  ExtractUserId(generate_row_key(s.user_id, s.start_time)) = s.user_id

Underscores(str) == Cardinality({k \in 1..Len(str) : str[k] = "_"})

(***************************************************************************)
(* The loaded sessions whose rows are among the first n of the table.      *)
(***************************************************************************)
LoadedAmongFirst(n) ==
  LET rows == Scan(sink, <<>>, n)
  IN  {s \in Loaded :
         \E k \in 1..Len(rows) :
           rows[k].key = generate_row_key(s.user_id, s.start_time)}

(***************************************************************************)
(* C20, as stated.  For every session loaded, the first two '_'-separated  *)
(* parts of its row key, joined by '_', are its user id.                   *)
(***************************************************************************)
C20_RowKeyRoundTrip == \A s \in Loaded : RoundTrip(s)

(***************************************************************************)
(* C20, amended.  For every session loaded whose user id holds exactly one *)
(* '_', the first two '_'-separated parts of its row key, joined by '_',   *)
(* are its user id; so when all the user ids are such, the user ids main   *)
(* collects are those of the sessions of the rows it scanned, and the      *)
(* user id of each session get_converted_sessions returns is that of a     *)
(* session loaded under its row key.                                       *)
(***************************************************************************)
C20_RowKeyRoundTripOneUnderscore ==
  /\ \A s \in Loaded : Underscores(s.user_id) = 1 => RoundTrip(s)
  /\ (\A s \in Loaded : Underscores(s.user_id) = 1) =>
       /\ result.query = "sample_users" =>
            result.users = {s.user_id : s \in LoadedAmongFirst(SampleScanLimit)}
       /\ result.query = "converted_sessions" =>
            \A k \in 1..Len(result.sessions) :
              \E s \in Loaded :
                /\ generate_row_key(s.user_id, s.start_time)
                     = result.sessions[k].row_key
                /\ s.user_id = result.sessions[k].user_id

(* C20's case: main has collected the user ids of the rows of two users,   *)
(* each id with one '_'.                                                   *)
C20_Witness ==
  /\ result.query = "sample_users"
  /\ \A s \in Loaded : Underscores(s.user_id) = 1
  /\ Cardinality(result.users) = 2
  /\ result.users = {s.user_id : s \in LoadedAmongFirst(SampleScanLimit)}

(***************************************************************************)
(* The sum of ceil(N / batch_size) over the session files from file f on.  *)
(***************************************************************************)
RECURSIVE SendsPerFileFrom(_)
SendsPerFileFrom(f) ==
  IF f > Len(session_files) THEN 0
  ELSE Ceil(Len(session_files[f]), batch_size) + SendsPerFileFrom(f + 1)

(***************************************************************************)
(* C21.  No batch spans two files: every file is begun with an empty batch *)
(* and a count of 0, nothing is left in the batch when a file is done,     *)
(* the puts of a send are all of the file being read, and a run that       *)
(* returns over well-formed files of N_1..N_m sessions, no send failing,   *)
(* has made ceil(N_1 / batch_size) + ... + ceil(N_m / batch_size) sends.   *)
(***************************************************************************)
C21_BatchesWithinFiles ==
  /\ [][(pc = "file" /\ pc' = "session") =>
          (batch' = <<>> /\ batch_count' = 0)]_vars
  /\ [](pc \in {"file", "done"} => batch = <<>>)
  /\ [](\A k \in 1..Len(sends) :
          \A n \in 1..Len(sends[k].puts) :
            sends[k].puts[n].src[1] = sends[k].file)
  /\ []((pc = "done" /\ ~SendFailed
           /\ \A f \in 1..Len(session_files) : WellFormed(session_files[f]))
          => Len(sends) = SendsPerFileFrom(1))

(* C21's case: two files that would fit in one batch together have been    *)
(* loaded, in two sends.                                                   *)
C21_Witness ==
  /\ pc = "done"
  /\ Len(session_files) = 2
  /\ Len(session_files[1]) = 1
  /\ Len(session_files[2]) = batch_size - 1
  /\ Ceil(TotalRecords, batch_size) = 1
  /\ Len(sends) = 2
  /\ ~SendFailed

(***************************************************************************)
(* C22, as stated.  Between record iterations, which is before each        *)
(* session of a file, after the last one, and between two files, the total *)
(* and the count of the batch add up to the number of sessions consumed,   *)
(* the total is the number of sessions in the sends that returned, and the *)
(* total never decreases.                                                  *)
(***************************************************************************)
C22_CountersMatchConsumed ==
  /\ [](pc \in {"session", "file"} =>
          total_loaded + batch_count = Cardinality(Consumed))
  /\ [](pc \in {"session", "file"} => total_loaded = SentOkFrom(1))
  /\ [][total_loaded' >= total_loaded]_vars

(***************************************************************************)
(* C22, amended.  At the head of the loop over the sessions of a file,     *)
(* before each session and after the last, the total and the count of the  *)
(* batch add up to the number of sessions consumed; between record         *)
(* iterations everywhere the total is the number of sessions in the sends  *)
(* that returned; and the total never decreases.                           *)
(***************************************************************************)
C22_CountersMatchConsumedInFile ==
  /\ [](pc = "session" =>
          total_loaded + batch_count = Cardinality(Consumed))
  /\ [](pc \in {"session", "file"} => total_loaded = SentOkFrom(1))
  /\ [][total_loaded' >= total_loaded]_vars

(* C22's case: in the second file, after a send of the first file and with *)
(* a session in the batch.                                                 *)
C22_Witness ==
  /\ pc = "session"
  /\ fi = 2
  /\ total_loaded >= 1
  /\ batch_count = 1
  /\ total_loaded + batch_count = Cardinality(Consumed)

(***************************************************************************)
(* The insert_many calls made on a collection, in call order; and whether  *)
(* load_transactions is in or past its loop with main still running.       *)
(***************************************************************************)
CallsOn(c) == SelectSeq(insert_calls, LAMBDA call : call.collection = c)

InTransactionsLoop == mongo_pc = <<"transactions", "insert">>

TransactionsLoopDone ==
  mongo_pc \in {<<"transactions", "index">>, <<"main", "summary">>,
                <<"main", "done">>}

(***************************************************************************)
(* C23.  load_transactions inserts the N records of the file slice by      *)
(* slice: call number k carries the records (k-1) * batch_size + 1 to      *)
(* k * batch_size of the file, or to the last, never none and never more   *)
(* than the batch size, and the total is the number of records inserted so *)
(* far; when the loop is done there were ceil(N / batch_size) calls, none  *)
(* for N = 0, and the total is N.                                          *)
(***************************************************************************)
C23_TransactionSlices ==
  (InTransactionsLoop \/ TransactionsLoopDone) =>
    LET calls == CallsOn("transactions")
        N == Len(data)
    IN  /\ \A k \in 1..Len(calls) :
             /\ calls[k].ok
             /\ Len(calls[k].documents) \in 1..transactions_batch_size
             /\ calls[k].documents =
                  SubSeq(data, (k - 1) * transactions_batch_size + 1,
                         IF k * transactions_batch_size < N
                         THEN k * transactions_batch_size ELSE N)
        /\ total_inserted =
             SumOf([k \in 1..Len(calls) |-> Len(calls[k].documents)])
        /\ TransactionsLoopDone =>
             /\ Len(calls) = Ceil(N, transactions_batch_size)
             /\ total_inserted = N
             /\ N = 0 => calls = <<>>

(* C23's case: a file of one record more than the batch size has been      *)
(* inserted, in two calls.                                                 *)
C23_Witness ==
  /\ mongo_pc = <<"transactions", "index">>
  /\ Len(data) = transactions_batch_size + 1
  /\ Len(CallsOn("transactions")) = 2
  /\ total_inserted = Len(data)

(***************************************************************************)
(* C24.  With one of the four files missing, main never gets past the      *)
(* checks: it is at them or has returned from them, no collection has been *)
(* dropped or written, and the database is as main found it.               *)
(***************************************************************************)
C24_MissingFileLeavesDatabase ==
  (\E c \in CollectionNames : ~raw_data[c].exists) =>
    /\ mongo_pc \in {<<"main", "check">>, <<"main", "returned">>}
    /\ db = db_before
    /\ insert_calls = <<>>
    /\ mongo_raised = "none"

(* C24's case: main has returned because the last of the files, the        *)
(* transactions, is missing, the others being there with records and the   *)
(* database holding documents.                                             *)
C24_Witness ==
  /\ mongo_pc = <<"main", "returned">>
  /\ ~raw_data["transactions"].exists
  /\ \A c \in CollectionNames \ {"transactions"} :
       raw_data[c].exists /\ raw_data[c].records # <<>>
  /\ db["categories"] # <<>>
  /\ db = db_before

(***************************************************************************)
(* The documents of the insert_many calls on a collection that returned,   *)
(* in call order; the call on it that raised, if one did; and whether the  *)
(* load function of the collection has returned.                           *)
(***************************************************************************)
RECURSIVE InsertedFrom(_, _)
InsertedFrom(calls, k) ==
  IF k > Len(calls) THEN <<>>
  ELSE (IF calls[k].ok THEN calls[k].documents ELSE <<>>)
         \o InsertedFrom(calls, k + 1)

InsertFailedOn(c) ==
  /\ mongo_raised = "BulkWriteError"
  /\ insert_calls[Len(insert_calls)].collection = c

LoadReturned(c) ==
  \/ mongo_pc \in {<<"main", "summary">>, <<"main", "done">>}
  \/ \E a, b \in 1..Len(Collections) :
       /\ Collections[a] = c
       /\ Collections[b] = mongo_pc[1]
       /\ a < b

(***************************************************************************)
(* C25, as stated.  A load function that has returned has left in its      *)
(* collection the records of the file and nothing else; while it inserts,  *)
(* and after an insert of it has raised, the collection holds the          *)
(* documents of the calls that returned and nothing else.                  *)
(***************************************************************************)
C25_LoadReplacesCollection ==
  \A c \in CollectionNames :
    /\ LoadReturned(c) => db[c] = raw_data[c].records
    /\ (mongo_pc = <<c, "insert">> \/ InsertFailedOn(c)) =>
         db[c] = InsertedFrom(CallsOn(c), 1)

(***************************************************************************)
(* C25, amended.  A load function that has returned has left in its        *)
(* collection the records of the file and nothing else; while it inserts   *)
(* the collection holds the documents of the calls that returned and       *)
(* nothing else; after an insert of it has raised the collection holds     *)
(* these, followed by some first documents of the call that raised, maybe  *)
(* none but not all, and nothing else.                                     *)
(***************************************************************************)
C25_LoadReplacesCollectionPartly ==
  \A c \in CollectionNames :
    /\ LoadReturned(c) => db[c] = raw_data[c].records
    /\ mongo_pc = <<c, "insert">> => db[c] = InsertedFrom(CallsOn(c), 1)
    /\ InsertFailedOn(c) =>
         LET failed == insert_calls[Len(insert_calls)].documents
         IN  \E k \in 0..(Len(failed) - 1) :
               db[c] = InsertedFrom(CallsOn(c), 1) \o SubSeq(failed, 1, k)

(* C25's case: the second insert of load_transactions raised, the          *)
(* collection having held an older document: it now holds the first batch  *)
(* and the first document of the second.                                   *)
C25_Witness ==
  /\ InsertFailedOn("transactions")
  /\ db_before["transactions"] # <<>>
  /\ Len(CallsOn("transactions")) = 2
  /\ Len(db["transactions"]) = transactions_batch_size + 1
  /\ db["users"] = raw_data["users"].records
  /\ db["users"] # <<>>

(***************************************************************************)
(* The sum of the totals of the entries of a stats dict.                   *)
(***************************************************************************)
RECURSIVE TotalOver(_, _)
TotalOver(stats, keys) ==
  IF keys = {} THEN 0
  ELSE LET k == CHOOSE x \in keys : TRUE
       IN  stats[k].total + TotalOver(stats, keys \ {k})

(***************************************************************************)
(* C26.  Before, between and after the rows of the scan: the converted     *)
(* sessions are at most those with a cart, these at most all the sessions, *)
(* and so are those with views; for every device and every referrer the    *)
(* converted count is at most the total; and the totals of the devices add *)
(* up to total_sessions.                                                   *)
(***************************************************************************)
C26_FunnelCountersOrdered ==
  /\ converted_sessions <= sessions_with_cart
  /\ sessions_with_cart <= total_sessions
  /\ sessions_with_views <= total_sessions
  /\ \A d \in DOMAIN device_stats :
       device_stats[d].converted <= device_stats[d].total
  /\ \A r \in DOMAIN referrer_stats :
       referrer_stats[r].converted <= referrer_stats[r].total
  /\ TotalOver(device_stats, DOMAIN device_stats) = total_sessions

(* C26's case: the scan is over, of converted and other sessions, on two   *)
(* devices.                                                                *)
C26_Witness ==
  /\ funnel_pc = "done"
  /\ total_sessions >= 2
  /\ converted_sessions >= 1
  /\ converted_sessions < total_sessions
  /\ Cardinality(DOMAIN device_stats) = 2

====
